---- MODULE Spec2Model ----
(***************************************************************************)
(* Hook Generator System: the access gate and the hook generation          *)
(* workflow of src/App.tsx, as a state machine.                            *)
(*                                                                         *)
(* Text is modelled as a sequence of tokens.  For the login inputs and the *)
(* environment strings a token is one character; for the service's reply   *)
(* and for error texts a token is a record [t, v] (a word, a punctuation   *)
(* mark, or a JSON string literal with value v).                           *)
(***************************************************************************)
EXTENDS Integers, Sequences, FiniteSets, TLC

VARIABLES
    \* ---- environment (fixed by the build / the browser) ----
    RAW_HOOKS,          \* the template list of ./constants
    API_KEY,            \* process.env.API_KEY
    ACCESS_CODES,       \* process.env.ACCESS_CODES
    service,            \* "echo": one string per template; "any": any length
    keyboard,           \* the texts the user types into the login fields
    storage,            \* localStorage['hook_system_auth']
    \* ---- component state (useState) ----
    mounted,            \* the mount effect has run
    isAuthenticated,
    accessCodeInput,
    emailInput,
    authError,
    formData,
    generatedHooks,
    loading,
    error,
    batchIndex,
    \* ---- calls to the text-generation service that have not settled ----
    pending,
    \* ---- history (not read by any action's guard or effect) ----
    lastOp,             \* exit path of the latest generate operation
    batches,            \* successful batches since results were last cleared
    consumed,           \* templates submitted in those batches
    replaced,           \* the latest Fresh cleared non-empty results
    gateOpen            \* a tryUnlock succeeded and no lock() followed

envVars  == <<RAW_HOOKS, API_KEY, ACCESS_CODES, service, keyboard>>
authVars == <<isAuthenticated, accessCodeInput, emailInput, authError>>
genVars  == <<generatedHooks, loading, error, batchIndex>>
histVars == <<lastOp, batches, consumed, replaced>>
vars == <<RAW_HOOKS, API_KEY, ACCESS_CODES, service, keyboard, storage, mounted,
          isAuthenticated, accessCodeInput, emailInput, authError, formData,
          generatedHooks, loading, error, batchIndex, pending,
          lastOp, batches, consumed, replaced, gateOpen>>

----------------------------------------------------------------------------
(* Bounds *)

MaxTemplates == 12
MaxTemplatesEcho == 25

----------------------------------------------------------------------------
(* Program constants *)

BATCH_SIZE == 10

null == "null"

MSG_MISSING_FIELDS == "Por favor completa el nicho y la idea principal."
MSG_GENERIC == "Hubo un error generando los hooks. Por favor intenta de nuevo."
MSG_CONFIG == "Error de Configuracion: Falta la API KEY en Vercel."
MSG_RATE_LIMIT == "Limite de trafico gratuito alcanzado."
MSG_ACCESS == "Error de Acceso: La API Key configurada no es valida."

AUTH_MSG_EMAIL == "Por favor ingresa un correo electronico valido antes de entrar."
AUTH_MSG_NO_CODE == "Por favor ingresa tu codigo de acceso."
AUTH_MSG_BAD_CODE == "Codigo de acceso incorrecto."

----------------------------------------------------------------------------
(* JavaScript string and array primitives, on token sequences *)

Min(a, b) == IF a <= b THEN a ELSE b

\* Array.prototype.slice(start, end) with 0-based, clamped indices.
Slice(s, start, end) ==
    LET lo == Min(start, Len(s))
        hi == Min(end, Len(s))
    IN  IF hi <= lo THEN <<>> ELSE [i \in 1..(hi - lo) |-> s[lo + i]]

IsSpace(c) == c \in {" ", "\n", "\t"}

RECURSIVE TrimStart(_)
TrimStart(s) ==
    IF s # <<>> /\ IsSpace(Head(s)) THEN TrimStart(Tail(s)) ELSE s

RECURSIVE TrimEnd(_)
TrimEnd(s) ==
    IF s # <<>> /\ IsSpace(s[Len(s)]) THEN TrimEnd(SubSeq(s, 1, Len(s) - 1)) ELSE s

\* String.prototype.trim
Trim(s) == TrimEnd(TrimStart(s))

LowerChar(c) ==
    CASE c = "V" -> "v"
      [] c = "I" -> "i"
      [] c = "P" -> "p"
      [] c = "G" -> "g"
      [] c = "O" -> "o"
      [] c = "L" -> "l"
      [] c = "D" -> "d"
      [] OTHER -> c

ToLowerCase_Identity(s) == s

\* String.prototype.toLowerCase
ToLowerCase(s) == [i \in 1..Len(s) |-> LowerChar(s[i])]

\* String.prototype.includes for a single character
IncludesChar(s, c) == \E i \in 1..Len(s) : s[i] = c

\* String.prototype.split(','): the pieces between the commas, in order.
RECURSIVE SplitFrom(_, _, _)
SplitFrom(s, i, cur) ==
    IF i > Len(s) THEN <<cur>>
    ELSE IF s[i] = "," THEN <<cur>> \o SplitFrom(s, i + 1, <<>>)
    ELSE SplitFrom(s, i + 1, Append(cur, s[i]))

Split(s) == SplitFrom(s, 1, <<>>)

\* process.env.X || "": an unset variable reads as the empty string.
EnvOr(v) == IF v.defined THEN v.value ELSE <<>>

----------------------------------------------------------------------------
(* Values the environment and the user can supply *)

UNDEFINED_TEXT == <<"u", "n", "d", "e", "f", "i", "n", "e", "d">>

Unset == [defined |-> FALSE, value |-> <<>>]
Set(s) == [defined |-> TRUE, value |-> s]

\* Builds of the application: no key, a blank key, the text "undefined"
\* (an unset variable stringified by the bundler), a key padded with blanks.
ApiKeys == {Unset, Set(<<" ", " ">>), Set(UNDEFINED_TEXT), Set(<<" ", "k", " ">>)}

\* The configured allow-list: "vip123, ,gold".
AccessCodeConfigs ==
    {Set(<<"v", "i", "p", "1", "2", "3", ",", " ", ",", "g", "o", "l", "d">>)}

\* What the user types into the email field.
Emails == {<<"a", "@", "b">>, <<"a", "@", "b", ".", "c">>}

\* What the user types into the code field.
Codes == {<<" ", "V", "I", "P", "1", "2", "3", " ">>, <<"n", "o", "p", "e">>}

\* The same, for the study of the access gate alone: no "@", no dot, a dot
\* but no "@", well-formed; a blank code, a padded upper-case code, a code in
\* mixed case, a code that is on no list.
GateEmails ==
    {<<"b", "a", "d", "e", "m", "a", "i", "l">>, <<"a", "@", "b">>,
     <<"a", ".", "b">>, <<"a", "@", "b", ".", "c">>}

GateCodes ==
    {<<" ", " ">>, <<" ", " ", "V", "I", "P", "1", "2", "3", " ", " ">>,
     <<"g", "O", "L", "d">>, <<"n", "o", "p", "e">>}

\* Allow-lists: none, "", " , ", "vip123", " VIP123 , ,Gold".
GateAccessCodeConfigs ==
    {Unset, Set(<<>>), Set(<<" ", ",", " ">>),
     Set(<<"v", "i", "p", "1", "2", "3">>),
     Set(<<" ", "V", "I", "P", "1", "2", "3", " ", ",", " ", ",", "G", "o", "l", "d">>)}

Keyboard(emails, codes) == [emails |-> emails, codes |-> codes]

\* What the user types into a field of the form.
FieldNames == {"niche", "topic", "audience"}
FieldValues == {"", "x"}

TemplateList(n) == [i \in 1..n |-> [id |-> i, template |-> i]]

----------------------------------------------------------------------------
(* Access gate *)

validateEmail_AtOnly(email) ==
    /\ email # <<>>
    /\ IncludesChar(email, "@")

validateEmail(email) ==
    /\ email # <<>>
    /\ IncludesChar(email, "@")
    /\ IncludesChar(email, ".")

\* The entries of the allow-list: split, trimmed, blanks discarded.
validCodes ==
    LET parts == Split(EnvOr(ACCESS_CODES))
        trimmed == [i \in 1..Len(parts) |-> Trim(parts[i])]
    IN  SelectSeq(trimmed, LAMBDA c : c # <<>>)

CodeMatches_Inverted(input) ==
    \E i \in 1..Len(validCodes) :
        ToLowerCase(validCodes[i]) # ToLowerCase(Trim(input))

CodeMatches(input) ==
    \E i \in 1..Len(validCodes) :
        ToLowerCase(validCodes[i]) = ToLowerCase(Trim(input))

LoginScreen == mounted /\ ~isAuthenticated
AppScreen == mounted /\ isAuthenticated

setEmailInput(v) ==
    /\ LoginScreen
    /\ emailInput' = v
    /\ UNCHANGED <<envVars, storage, mounted, isAuthenticated, accessCodeInput,
                   authError, formData, genVars, pending, histVars, gateOpen>>

setAccessCodeInput(v) ==
    /\ LoginScreen
    /\ accessCodeInput' = v
    /\ UNCHANGED <<envVars, storage, mounted, isAuthenticated, emailInput,
                   authError, formData, genVars, pending, histVars, gateOpen>>

SavedAuthOnLogin_NotStored == storage

\* localStorage.setItem('hook_system_auth', 'true')
SavedAuthOnLogin == "true"

handleLogin ==
    /\ LoginScreen
    /\ IF ~validateEmail(emailInput)
       THEN /\ authError' = AUTH_MSG_EMAIL
            /\ UNCHANGED <<isAuthenticated, storage, gateOpen>>
       ELSE IF Trim(accessCodeInput) = <<>>
       THEN /\ authError' = AUTH_MSG_NO_CODE
            /\ UNCHANGED <<isAuthenticated, storage, gateOpen>>
       ELSE IF CodeMatches(accessCodeInput)
       THEN /\ isAuthenticated' = TRUE
            /\ storage' = SavedAuthOnLogin
            /\ authError' = ""
            /\ gateOpen' = TRUE
       ELSE /\ authError' = AUTH_MSG_BAD_CODE
            /\ UNCHANGED <<isAuthenticated, storage, gateOpen>>
    /\ UNCHANGED <<envVars, mounted, accessCodeInput, emailInput, formData,
                   genVars, pending, histVars>>

Logout_KeepsFlag ==
    /\ AppScreen
    /\ isAuthenticated' = FALSE
    /\ emailInput' = <<>>
    /\ accessCodeInput' = <<>>
    /\ gateOpen' = FALSE
    /\ UNCHANGED <<envVars, storage, mounted, authError, formData, genVars,
                   pending, histVars>>

Logout_ClearsResults ==
    /\ AppScreen
    /\ storage' = "null"
    /\ isAuthenticated' = FALSE
    /\ emailInput' = <<>>
    /\ accessCodeInput' = <<>>
    /\ gateOpen' = FALSE
    /\ generatedHooks' = <<>>
    /\ batchIndex' = 0
    /\ loading' = FALSE
    /\ error' = null
    /\ pending' = <<>>
    /\ UNCHANGED <<envVars, mounted, authError, formData, histVars>>

\* The "Cerrar Sesion" button.
Logout ==
    /\ AppScreen
    /\ storage' = "null"
    /\ isAuthenticated' = FALSE
    /\ emailInput' = <<>>
    /\ accessCodeInput' = <<>>
    /\ gateOpen' = FALSE
    /\ UNCHANGED <<envVars, mounted, authError, formData, genVars, pending, histVars>>

Rehydrated_Always == TRUE
Rehydrated_Never == storage = "1"

\* if (savedAuth === 'true') setIsAuthenticated(true)
Rehydrated == storage = "true"

\* The effect that runs once after the first render.
MountEffect ==
    /\ ~mounted
    /\ mounted' = TRUE
    /\ isAuthenticated' = Rehydrated
    /\ UNCHANGED <<envVars, storage, accessCodeInput, emailInput, authError,
                   formData, genVars, pending, histVars, gateOpen>>

EmptyForm == [niche |-> "", topic |-> "", audience |-> ""]
NoOp == [path |-> "none", isLoadMore |-> FALSE, err |-> <<>>, reply |-> [len |-> -1, tag |-> 0]]

\* The component's state as useState creates it.
InitialComponent ==
    /\ mounted = FALSE
    /\ isAuthenticated = FALSE
    /\ accessCodeInput = <<>>
    /\ emailInput = <<>>
    /\ authError = ""
    /\ formData = EmptyForm
    /\ generatedHooks = <<>>
    /\ loading = FALSE
    /\ error = null
    /\ batchIndex = 0
    /\ pending = <<>>
    /\ lastOp = NoOp
    /\ batches = 0
    /\ consumed = 0
    /\ replaced = FALSE

\* A page reload: the component is created again; only localStorage survives,
\* and a call of the old page is never delivered.
Reload ==
    /\ mounted' = FALSE
    /\ isAuthenticated' = FALSE
    /\ accessCodeInput' = <<>>
    /\ emailInput' = <<>>
    /\ authError' = ""
    /\ formData' = EmptyForm
    /\ generatedHooks' = <<>>
    /\ loading' = FALSE
    /\ error' = null
    /\ batchIndex' = 0
    /\ pending' = <<>>
    /\ lastOp' = NoOp
    /\ batches' = 0
    /\ consumed' = 0
    /\ replaced' = FALSE
    /\ UNCHANGED <<envVars, storage, gateOpen>>

----------------------------------------------------------------------------
(* Reply and error texts: sequences of tokens [t, v] *)

Tok(t) == [t |-> t, v |-> 0]
Str(v) == [t |-> "str", v |-> v]

\* The Markdown code-fence markers (three backticks, with and without "json").
FENCE_JSON == Tok("fence-json")
FENCE == Tok("fence")
NEWLINE == Tok("\n")

\* String.prototype.includes(word)
Includes(text, word) == \E i \in 1..Len(text) : text[i].t = word

RECURSIVE TrimTextStart(_)
TrimTextStart(s) ==
    IF s # <<>> /\ IsSpace(Head(s).t) THEN TrimTextStart(Tail(s)) ELSE s

RECURSIVE TrimTextEnd(_)
TrimTextEnd(s) ==
    IF s # <<>> /\ IsSpace(s[Len(s)].t)
    THEN TrimTextEnd(SubSeq(s, 1, Len(s) - 1)) ELSE s

TrimText(s) == TrimTextEnd(TrimTextStart(s))

\* The fallback's clean-up: both fence markers removed, then trim().
CleanText(text) ==
    LET noJson == SelectSeq(text, LAMBDA k : k # FENCE_JSON)
        noFence == SelectSeq(noJson, LAMBDA k : k # FENCE)
    IN  TrimText(noFence)

\* JSON.parse: white space around the value is skipped; "[" strings "]" is an
\* array of strings, "{}" an object, anything else a SyntaxError.
JSONParse(text) ==
    LET t == TrimText(text)
        n == Len(t)
    IN  IF /\ n >= 2
           /\ t[1].t = "["
           /\ t[n].t = "]"
           /\ \A i \in 2..(n - 1) : t[i].t = "str"
        THEN [ok |-> TRUE, isArray |-> TRUE,
              items |-> [i \in 1..(n - 2) |-> t[i + 1].v]]
        ELSE IF t = <<Tok("{}")>>
        THEN [ok |-> TRUE, isArray |-> FALSE, items |-> <<>>]
        ELSE [ok |-> FALSE, isArray |-> FALSE, items |-> <<>>]

\* An Error object; err.toString() is "name: message".
Err(name, message) == [name |-> name, message |-> message]
ErrToString(err) == <<Tok(err.name)>> \o err.message

API_KEY_MISSING == Err("Error", <<Tok("API_KEY_MISSING")>>)
NO_RESPONSE == Err("Error", <<Tok("No response from AI")>>)
NOT_A_FUNCTION == Err("TypeError", <<Tok("adaptedStrings.map is not a function")>>)

\* The SyntaxError of JSON.parse.  Its message is the engine's: some engines
\* quote the text that failed to parse, others do not.
SyntaxErrors(text) ==
    {Err("SyntaxError", <<Tok("Unexpected token")>>),
     Err("SyntaxError", <<Tok("Unexpected token")>> \o text)}

----------------------------------------------------------------------------
(* The text-generation service *)

ReplyTags == {1, 2}

ArrayText(n, tag) ==
    <<Tok("[")>> \o [i \in 1..n |-> Str(tag * 100 + (i - 1))] \o <<Tok("]")>>

Fenced(text) == <<FENCE_JSON, NEWLINE>> \o text \o <<NEWLINE, FENCE>>

\* Lengths of the array the service returns for n templates.
ReplyLengths(n) ==
    IF service = "echo" THEN {n} ELSE {k \in {n - 1, n, n + 1} : k >= 0}

ServiceErrors ==
    {Err("ApiError", <<Tok("429"), Tok("RESOURCE_EXHAUSTED")>>),
     Err("Error", <<Tok("Too Many Requests")>>),
     Err("ApiError", <<Tok("403"), Tok("PERMISSION_DENIED")>>),
     Err("ApiError", <<Tok("400"), Tok("API key not valid")>>),
     Err("ApiError", <<Tok("500"), Tok("INTERNAL")>>)}

JunkTexts ==
    {<<Tok("Lo"), Tok("siento")>>,
     <<Tok("Aqui"), Tok("van"), Tok("429"), Tok("hooks")>>,
     Fenced(<<Tok("Lo"), Tok("siento")>>)}

\* How a call for n templates can settle: the call throws, or returns a text.
\* The fields len and tag describe an array reply (len = -1: not an array);
\* no action reads them.
NoArray == [len |-> -1, tag |-> 0]

Responses(n) ==
    {[threw |-> TRUE, err |-> e, text |-> <<>>, array |-> NoArray] :
            e \in ServiceErrors}
    \cup {[threw |-> FALSE, err |-> NO_RESPONSE, text |-> x, array |-> NoArray] :
            x \in {<<>>, <<Tok("{}")>>} \cup JunkTexts}
    \cup {[threw |-> FALSE, err |-> NO_RESPONSE, text |-> ArrayText(k, tag),
           array |-> [len |-> k, tag |-> tag]] :
            k \in ReplyLengths(n), tag \in ReplyTags}
    \cup {[threw |-> FALSE, err |-> NO_RESPONSE, text |-> Fenced(ArrayText(k, tag)),
           array |-> [len |-> k, tag |-> tag]] :
            k \in ReplyLengths(n), tag \in ReplyTags}

----------------------------------------------------------------------------
(* Hook generation workflow *)

handleInputChange(name, value) ==
    /\ AppScreen
    /\ formData' = [formData EXCEPT ![name] = value]
    /\ UNCHANGED <<envVars, storage, mounted, authVars, genVars, pending,
                   histVars, gateOpen>>

KeyMissing_NoTrim == EnvOr(API_KEY) = <<>>

\* getAIClient throws API_KEY_MISSING.
KeyMissing ==
    LET apiKey == Trim(EnvOr(API_KEY))
    IN  apiKey = <<>> \/ apiKey = UNDEFINED_TEXT

\* The catch block's choice of message.
ErrorMessage(err) ==
    IF err.message = API_KEY_MISSING.message
    THEN MSG_CONFIG
    ELSE IF \/ Includes(ErrToString(err), "429")
            \/ Includes(ErrToString(err), "Too Many Requests")
    THEN MSG_RATE_LIMIT
    ELSE IF \/ Includes(ErrToString(err), "403")
            \/ Includes(ErrToString(err), "API key not valid")
    THEN MSG_ACCESS
    ELSE MSG_GENERIC

NewHooks_IndexOnly(start, adaptedStrings) ==
    [k \in 1..Len(adaptedStrings) |->
        [id |-> k - 1,
         originalTemplateId |-> k - 1,
         text |-> adaptedStrings[k]]]

NewHooks_OneBased(start, adaptedStrings) ==
    [k \in 1..Len(adaptedStrings) |->
        [id |-> start + k,
         originalTemplateId |-> start + k,
         text |-> adaptedStrings[k]]]

NewHooks(start, adaptedStrings) ==
    [k \in 1..Len(adaptedStrings) |->
        [id |-> start + (k - 1),
         originalTemplateId |-> start + (k - 1),
         text |-> adaptedStrings[k]]]

Op(path, isLoadMore, err) ==
    [path |-> path, isLoadMore |-> isLoadMore, err |-> err, reply |-> NoArray]

FormInvalid_NicheOnly == formData.niche = ""

\* if (!formData.niche || !formData.topic)
FormInvalid == formData.niche = "" \/ formData.topic = ""

StartOf_SameBatch(isLoadMore) == IF isLoadMore THEN batchIndex * BATCH_SIZE ELSE 0

\* const start = isLoadMore ? (batchIndex + 1) * BATCH_SIZE : 0
StartOf(isLoadMore) == IF isLoadMore THEN (batchIndex + 1) * BATCH_SIZE ELSE 0

HooksAtStart_Kept(isLoadMore) == generatedHooks

\* if (!isLoadMore) { setGeneratedHooks([]); setBatchIndex(0); }
HooksAtStart(isLoadMore) == IF isLoadMore THEN generatedHooks ELSE <<>>
BatchIndexAtStart_Eager(isLoadMore) == IF isLoadMore THEN batchIndex + 1 ELSE 0

BatchIndexAtStart(isLoadMore) == IF isLoadMore THEN batchIndex ELSE 0

IsExhausted_Never(templatesToAdapt) == FALSE

\* if (templatesToAdapt.length === 0)
IsExhausted(templatesToAdapt) == templatesToAdapt = <<>>

HooksOnSuccess_Replace(isLoadMore, newHooks) == newHooks

\* The state updates that end the try block.
HooksOnSuccess(isLoadMore, newHooks) ==
    IF isLoadMore THEN generatedHooks \o newHooks ELSE newHooks
BatchIndexOnSuccess(isLoadMore) == IF isLoadMore THEN batchIndex + 1 ELSE 0

Finally_Missing(flag) == flag

\* finally { setLoading(false) }, given the flag as the try/catch left it.
Finally(flag) == FALSE

ButtonEnabled_NoDisable(isLoadMore) ==
    /\ AppScreen
    /\ isLoadMore => generatedHooks # <<>>

\* The two buttons: both are disabled while loading, and the load-more button
\* is rendered only under a non-empty result list.
ButtonEnabled(isLoadMore) ==
    /\ AppScreen
    /\ ~loading
    /\ isLoadMore => generatedHooks # <<>>

\* generateHooks up to its await.
generateHooks(isLoadMore) ==
    IF FormInvalid
    THEN /\ error' = MSG_MISSING_FIELDS
         /\ lastOp' = Op("validation", isLoadMore, <<>>)
         /\ UNCHANGED <<generatedHooks, loading, batchIndex, pending,
                        batches, consumed, replaced>>
    ELSE IF KeyMissing
    THEN /\ error' = ErrorMessage(API_KEY_MISSING)
         /\ loading' = Finally(TRUE)
         /\ lastOp' = Op("credential", isLoadMore, ErrToString(API_KEY_MISSING))
         /\ UNCHANGED <<generatedHooks, batchIndex, pending,
                        batches, consumed, replaced>>
    ELSE LET start == StartOf(isLoadMore)
             end == start + BATCH_SIZE
             templatesToAdapt == Slice(RAW_HOOKS, start, end)
             prompt == [niche |-> formData.niche,
                        topic |-> formData.topic,
                        audience |-> IF formData.audience = ""
                                     THEN "General audience within the niche"
                                     ELSE formData.audience,
                        templates |-> templatesToAdapt]
         IN  /\ error' = null
             /\ generatedHooks' = HooksAtStart(isLoadMore)
             /\ batchIndex' = BatchIndexAtStart(isLoadMore)
             /\ IF isLoadMore
                THEN UNCHANGED <<batches, consumed, replaced>>
                ELSE /\ batches' = 0
                     /\ consumed' = 0
                     /\ replaced' = (generatedHooks # <<>>)
             /\ IF IsExhausted(templatesToAdapt)
                THEN /\ loading' = Finally(FALSE)
                     /\ lastOp' = Op("noop", isLoadMore, <<>>)
                     /\ UNCHANGED pending
                ELSE /\ loading' = TRUE
                     /\ lastOp' = Op("calling", isLoadMore, <<>>)
                     /\ pending' = Append(pending,
                            [isLoadMore |-> isLoadMore, start |-> start, prompt |-> prompt])

\* A click on "Generar Hooks Virales" (Fresh) or on "Cargar siguientes" (LoadMore).
GenerateClick(isLoadMore) ==
    /\ ButtonEnabled(isLoadMore)
    /\ generateHooks(isLoadMore)
    /\ UNCHANGED <<envVars, storage, mounted, authVars, formData, gateOpen>>

Thrown(err, path) == [threw |-> TRUE, err |-> err, path |-> path, hooks |-> <<>>]

Mapped(start, parsed) ==
    IF parsed.isArray
    THEN [threw |-> FALSE, err |-> NO_RESPONSE, path |-> "ok",
          hooks |-> NewHooks(start, parsed.items)]
    ELSE Thrown(NOT_A_FUNCTION, "not_array")

\* generateHooks after its await, up to where the try block ends or throws.
Outcomes(start, resp) ==
    IF resp.threw THEN {Thrown(resp.err, "service_error")}
    ELSE IF resp.text = <<>> THEN {Thrown(NO_RESPONSE, "empty_reply")}
    ELSE LET strict == JSONParse(resp.text)
             cleanText == CleanText(resp.text)
             fallback == JSONParse(cleanText)
         IN  IF strict.ok THEN {Mapped(start, strict)}
             ELSE IF fallback.ok THEN {Mapped(start, fallback)}
             ELSE {Thrown(e, "unparseable") : e \in SyntaxErrors(cleanText)}

RemoveAt(s, i) == SubSeq(s, 1, i - 1) \o SubSeq(s, i + 1, Len(s))

PendingAfter_Retry(i, out) ==
    IF out.threw THEN Append(RemoveAt(pending, i), pending[i]) ELSE RemoveAt(pending, i)

\* The calls in flight once pending[i] has settled: the catch block issues
\* no call, whatever the outcome.
PendingAfter(i, out) == RemoveAt(pending, i)

\* The call pending[i] settles with resp and generateHooks runs to its end.
Settle(i, resp, out) ==
    LET call == pending[i]
    IN  /\ pending' = PendingAfter(i, out)
        /\ loading' = Finally(TRUE)
        /\ IF out.threw
           THEN /\ error' = ErrorMessage(out.err)
                /\ lastOp' = Op(out.path, call.isLoadMore, ErrToString(out.err))
                /\ UNCHANGED <<generatedHooks, batchIndex, batches, consumed>>
           ELSE /\ lastOp' = [Op("ok", call.isLoadMore, <<>>) EXCEPT !.reply = resp.array]
                /\ UNCHANGED error
                /\ generatedHooks' = HooksOnSuccess(call.isLoadMore, out.hooks)
                /\ batchIndex' = BatchIndexOnSuccess(call.isLoadMore)
                /\ IF call.isLoadMore
                   THEN /\ batches' = batches + 1
                        /\ consumed' = consumed + Len(call.prompt.templates)
                   ELSE /\ batches' = 1
                        /\ consumed' = Len(call.prompt.templates)
        /\ UNCHANGED <<envVars, storage, mounted, authVars, formData, replaced, gateOpen>>

CallSettles ==
    \E i \in 1..Len(pending) :
        \E resp \in Responses(Len(pending[i].prompt.templates)) :
            \E out \in Outcomes(pending[i].start, resp) :
                Settle(i, resp, out)

----------------------------------------------------------------------------
(* Specifications *)

InitWith(counts, services) ==
    /\ RAW_HOOKS \in {TemplateList(n) : n \in counts}
    /\ API_KEY \in ApiKeys
    /\ ACCESS_CODES \in AccessCodeConfigs
    /\ service \in services
    /\ keyboard = Keyboard(Emails, Codes)
    /\ storage = "null"
    /\ gateOpen = FALSE
    /\ InitialComponent

Init == InitWith(0..MaxTemplates, {"any"})

Next ==
    \/ MountEffect
    \/ Reload
    \/ \E v \in keyboard.emails : setEmailInput(v)
    \/ \E v \in keyboard.codes : setAccessCodeInput(v)
    \/ handleLogin
    \/ Logout
    \/ \E name \in FieldNames, value \in FieldValues : handleInputChange(name, value)
    \/ \E isLoadMore \in BOOLEAN : GenerateClick(isLoadMore)
    \/ CallSettles

Spec == Init /\ [][Next]_vars

\* The same program against a service that returns one string per template.
InitEcho == InitWith(0..MaxTemplatesEcho, {"echo"})

SpecEcho == InitEcho /\ [][Next]_vars

\* The access gate under every allow-list and login input of interest, in
\* front of a one-template build with a working key.
InitGate ==
    /\ RAW_HOOKS = TemplateList(1)
    /\ API_KEY = Set(<<" ", "k", " ">>)
    /\ ACCESS_CODES \in GateAccessCodeConfigs
    /\ service = "echo"
    /\ keyboard = Keyboard(GateEmails, GateCodes)
    /\ storage = "null"
    /\ gateOpen = FALSE
    /\ InitialComponent

SpecGate == InitGate /\ [][Next]_vars

----------------------------------------------------------------------------
(* Properties *)

TemplateCount == Len(RAW_HOOKS)
FreshPending == \E i \in 1..Len(pending) : ~pending[i].isLoadMore
Ended == {"noop", "credential", "ok", "service_error", "empty_reply",
          "unparseable", "not_array"}
Failed == {"credential", "service_error", "empty_reply", "unparseable", "not_array"}

\* C1: at most one call to the text-generation service is outstanding in
\* every reachable state, whatever the user does while it is.
C1_SingleCall == Len(pending) <= 1

\* A call is outstanding and the user has logged out meanwhile.
C1_Witness == Len(pending) = 1 /\ loading /\ LoginScreen /\ emailInput # <<>>

\* C2: Loading is set only while a call is outstanding, and it is clear
\* after every exit path of a generate operation.
C2_LoadingCleared ==
    /\ loading => pending # <<>>
    /\ lastOp.path \in Ended => ~loading

\* The operation ended on the unparseable-reply path, with Loading clear.
C2_Witness == lastOp.path = "unparseable" /\ ~loading /\ pending = <<>>

\* C3: against a service that returns one string per template, after a
\* successful Fresh and k = batches - 1 successful LoadMore calls the results
\* have length min(L, 10 * (k + 1)); and once the results have length L a
\* LoadMore issues no call and leaves results and batch index unchanged.
C3_PagedLength ==
    /\ [](batches >= 1 =>
            Len(generatedHooks) = Min(TemplateCount, BATCH_SIZE * batches))
    /\ [][(GenerateClick(TRUE) /\ batches >= 1 /\ Len(generatedHooks) = TemplateCount)
            => UNCHANGED <<pending, generatedHooks, batchIndex>>]_vars

\* 25 templates: 10, 20, 25 results, then a LoadMore that did nothing.
C3_Witness ==
    /\ TemplateCount = 25
    /\ Len(generatedHooks) = 25
    /\ batchIndex = 2
    /\ batches = 3
    /\ lastOp.path = "noop"
    /\ lastOp.isLoadMore

\* C4: while a Fresh call is outstanding, results is empty and the batch
\* index is 0.
C4_FreshClears == FreshPending => generatedHooks = <<>> /\ batchIndex = 0

\* A Fresh call is outstanding that replaced earlier results, sent with an
\* empty audience.
C4_Witness ==
    /\ FreshPending
    /\ replaced
    /\ formData.audience = ""
    /\ pending[1].prompt.audience = "General audience within the niche"

\* The batch window of the next generate selects no template.
WindowEmpty(isLoadMore) ==
    IF isLoadMore THEN (batchIndex + 1) * BATCH_SIZE >= TemplateCount
    ELSE TemplateCount = 0

NoOpStep(isLoadMore) ==
    /\ GenerateClick(isLoadMore)
    /\ formData.niche # "" /\ formData.topic # ""
    /\ ~KeyMissing
    /\ WindowEmpty(isLoadMore)

\* C5 as claimed: a generate whose window is empty issues no call and leaves
\* results, batch index, Loading and lastError as they were.
C5_Original ==
    [][\A m \in BOOLEAN : NoOpStep(m) =>
        UNCHANGED <<pending, generatedHooks, batchIndex, loading, error>>]_vars

\* C5 (amended): a generate whose window is empty issues no call and leaves
\* results, batch index and Loading as they were; lastError becomes null.
C5_NoOpOnExhausted ==
    [][\A m \in BOOLEAN : NoOpStep(m) =>
        /\ UNCHANGED <<pending, generatedHooks, batchIndex, loading>>
        /\ error' = null]_vars

\* A LoadMore on exhausted templates has ended as a no-op under results.
C5_Witness ==
    /\ lastOp.path = "noop"
    /\ lastOp.isLoadMore
    /\ generatedHooks # <<>>
    /\ error = null

nextBatchOffset == (batchIndex + 1) * BATCH_SIZE

\* C6 as claimed: nextBatchOffset equals the number of templates consumed by
\* the successful batches, in every reachable state.
C6_Original == nextBatchOffset = consumed

\* C6 (amended): once a batch has succeeded since the results were last
\* cleared, nextBatchOffset capped at the template count equals the number of
\* templates consumed.
C6_OffsetMatchesConsumed ==
    batches >= 1 => Min(nextBatchOffset, TemplateCount) = consumed

\* A final partial batch has been consumed by a LoadMore.
C6_Witness ==
    /\ batches = 2
    /\ consumed = TemplateCount
    /\ TemplateCount > BATCH_SIZE
    /\ TemplateCount < 2 * BATCH_SIZE

\* C7: a generate with an empty niche or topic sets the missing-fields
\* error, issues no call, and leaves Loading, results and batch index alone.
C7_ValidationStopsGenerate ==
    [][\A m \in BOOLEAN :
        (GenerateClick(m) /\ (formData.niche = "" \/ formData.topic = "")) =>
            /\ error' = MSG_MISSING_FIELDS
            /\ ~loading'
            /\ UNCHANGED <<pending, loading, generatedHooks, batchIndex>>]_vars

\* A LoadMore was refused for an empty topic, under results it left alone.
C7_Witness ==
    /\ lastOp.path = "validation"
    /\ lastOp.isLoadMore
    /\ formData.niche # ""
    /\ formData.topic = ""
    /\ error = MSG_MISSING_FIELDS
    /\ generatedHooks # <<>>

\* The hooks a Fresh builds from an array reply of len strings tagged tag.
HooksOfReply(reply) ==
    [k \in 1..reply.len |->
        [id |-> k - 1, originalTemplateId |-> k - 1, text |-> reply.tag * 100 + (k - 1)]]

\* C8: when a Fresh has succeeded, results is exactly the hooks of that
\* call's reply and the batch index is 0, whatever they were before.
C8_FreshReplaces ==
    (lastOp.path = "ok" /\ ~lastOp.isLoadMore) =>
        /\ generatedHooks = HooksOfReply(lastOp.reply)
        /\ batchIndex = 0

\* A Fresh has succeeded that replaced the results of an earlier one.
C8_Witness ==
    /\ lastOp.path = "ok"
    /\ ~lastOp.isLoadMore
    /\ replaced
    /\ lastOp.reply.len > 0

\* The message the classification promises for a failed operation.
PromisedMessage(op) ==
    IF op.path = "credential" THEN MSG_CONFIG
    ELSE IF op.path = "service_error"
    THEN IF Includes(op.err, "429") \/ Includes(op.err, "Too Many Requests")
         THEN MSG_RATE_LIMIT
         ELSE IF Includes(op.err, "403") \/ Includes(op.err, "API key not valid")
         THEN MSG_ACCESS
         ELSE MSG_GENERIC
    ELSE MSG_GENERIC

\* C9: after a failed operation lastError is the message of the fixed
\* mapping: configuration for a missing credential, retry-shortly for rate
\* limiting, access for an invalid credential, generic for everything else,
\* an empty or unparseable reply included.
C9_Classification == lastOp.path \in Failed => error = PromisedMessage(lastOp)

\* C10: a generate action can start only while the gate is open: a tryUnlock
\* has succeeded, in this page load or an earlier one, and no lock() followed.
C10_GateBeforeGenerate == \A m \in BOOLEAN : ButtonEnabled(m) => gateOpen

\* A call was issued in a page load that was unlocked by rehydration alone.
C10_Witness == AppScreen /\ emailInput = <<>> /\ pending # <<>>

----------------------------------------------------------------------------
(* Properties of the access gate *)

\* The typed emails that have both an "@" and a dot.
WellFormedEmails == {<<"a", "@", "b", ".", "c">>}

\* A typed code with the surrounding blanks dropped and in lower case.
CanonOf(code) ==
    CASE code = <<" ", " ", "V", "I", "P", "1", "2", "3", " ", " ">> -> "vip123"
      [] code = <<" ", "V", "I", "P", "1", "2", "3", " ">> -> "vip123"
      [] code = <<"g", "O", "L", "d">> -> "gold"
      [] code = <<"n", "o", "p", "e">> -> "nope"
      [] OTHER -> ""

\* The non-blank entries of a configured allow-list, in lower case.
EntriesOf(config) ==
    CASE config = Set(<<"v", "i", "p", "1", "2", "3">>) -> {"vip123"}
      [] config = Set(<<" ", "V", "I", "P", "1", "2", "3", " ", ",", " ", ",",
                        "G", "o", "l", "d">>) -> {"vip123", "gold"}
      [] config = Set(<<"v", "i", "p", "1", "2", "3", ",", " ", ",",
                        "g", "o", "l", "d">>) -> {"vip123", "gold"}
      [] OTHER -> {}

OnAllowList(code) == CanonOf(code) \in EntriesOf(ACCESS_CODES)

\* C11: with a well-formed email, a login whose code equals an allow-list
\* entry after trimming and case folding unlocks the gate and persists the
\* unlock flag.
C11_UnlockOnMatch ==
    [][(handleLogin /\ emailInput \in WellFormedEmails /\ OnAllowList(accessCodeInput))
        => (isAuthenticated' /\ storage' = "true")]_vars

\* "  VIP123  " has unlocked the gate configured with "vip123".
C11_Witness ==
    /\ isAuthenticated
    /\ storage = "true"
    /\ accessCodeInput = <<" ", " ", "V", "I", "P", "1", "2", "3", " ", " ">>
    /\ ACCESS_CODES = Set(<<"v", "i", "p", "1", "2", "3">>)

\* C12: a login with an email that lacks an "@" or a dot fails with the
\* invalid-email error and changes neither the unlocked state nor the
\* persisted flag, whatever the code.
C12_InvalidEmail ==
    [][(handleLogin /\ emailInput \notin WellFormedEmails)
        => /\ authError' = AUTH_MSG_EMAIL
           /\ ~isAuthenticated'
           /\ UNCHANGED <<isAuthenticated, storage>>]_vars

\* "a@b" was rejected together with a code that is on the allow-list.
C12_Witness ==
    /\ authError = AUTH_MSG_EMAIL
    /\ emailInput = <<"a", "@", "b">>
    /\ OnAllowList(accessCodeInput)
    /\ ~isAuthenticated
    /\ storage = "null"

\* C13: with a well-formed email, a blank code fails with the missing-code
\* error and a code on no entry with the mismatch error, the gate and the
\* flag staying as they were; under an allow-list without a non-blank entry
\* the gate is never unlocked.
C13_CodeRejected ==
    /\ [](EntriesOf(ACCESS_CODES) = {} => (~isAuthenticated /\ storage = "null"))
    /\ [][(handleLogin /\ emailInput \in WellFormedEmails
                       /\ ~OnAllowList(accessCodeInput))
            => /\ authError' = (IF CanonOf(accessCodeInput) = ""
                                THEN AUTH_MSG_NO_CODE ELSE AUTH_MSG_BAD_CODE)
               /\ ~isAuthenticated'
               /\ UNCHANGED <<isAuthenticated, storage>>]_vars

\* A code was refused by an allow-list that holds only blank entries.
C13_Witness ==
    /\ authError = AUTH_MSG_BAD_CODE
    /\ ACCESS_CODES = Set(<<" ", ",", " ">>)
    /\ emailInput \in WellFormedEmails
    /\ CanonOf(accessCodeInput) = "vip123"
    /\ LoginScreen

\* C14: logout clears the persisted flag and locks the gate, from any
\* unlocked state; from then on the gate stays locked, across reloads, until
\* a login succeeds.
C14_LockClears ==
    /\ [](~gateOpen => (~isAuthenticated /\ storage = "null"))
    /\ [][Logout => (~isAuthenticated' /\ storage' = "null")]_vars

\* The user has logged out of a session that had produced results.
C14_Witness ==
    /\ LoginScreen
    /\ storage = "null"
    /\ ~gateOpen
    /\ generatedHooks # <<>>

\* C15: while a login has succeeded and no logout followed, the gate is
\* unlocked once the page has started, with nothing typed again; and a page
\* that has just been loaded holds no generation state.
C15_ReloadKeepsGateOnly ==
    /\ (mounted /\ gateOpen) => isAuthenticated
    /\ ~mounted =>
        /\ generatedHooks = <<>>
        /\ batchIndex = 0
        /\ ~loading
        /\ error = null
        /\ formData = [niche |-> "", topic |-> "", audience |-> ""]
        /\ pending = <<>>

\* The page was reloaded while unlocked and is unlocked again, its login
\* fields empty and its results gone.
C15_Witness ==
    /\ AppScreen
    /\ gateOpen
    /\ emailInput = <<>>
    /\ accessCodeInput = <<>>
    /\ generatedHooks = <<>>
    /\ lastOp.path = "none"

\* C16: against a service that returns one string per template, the hook
\* made from position i of the reply to the batch that starts at start has
\* id and originalTemplateId start + i and the i-th reply string as text.
\* (The hook at 0-based place p of the results comes from the batch that
\* starts at start = p - p % 10, position i = p % 10.)
C16_IdsFollowWindow ==
    /\ \A j \in 1..Len(generatedHooks) :
        LET p == j - 1
            start == BATCH_SIZE * (p \div BATCH_SIZE)
            i == p % BATCH_SIZE
        IN  /\ generatedHooks[j].id = start + i
            /\ generatedHooks[j].originalTemplateId = start + i
            /\ \E tag \in ReplyTags : generatedHooks[j].text = tag * 100 + i
    /\ lastOp.path = "ok" =>
        \A i \in 0..(lastOp.reply.len - 1) :
            LET start == BATCH_SIZE * (batches - 1)
            IN  /\ start + i + 1 <= Len(generatedHooks)
                /\ generatedHooks[start + i + 1].id = start + i
                /\ generatedHooks[start + i + 1].text = lastOp.reply.tag * 100 + i

\* A LoadMore has added the hooks of the second batch.
C16_Witness ==
    /\ lastOp.path = "ok"
    /\ lastOp.isLoadMore
    /\ batches = 2
    /\ Len(generatedHooks) = 2 * BATCH_SIZE
    /\ generatedHooks[BATCH_SIZE + 1].id = BATCH_SIZE

\* The call pending[i] settles with an array reply of len strings, plain or
\* wrapped in a code fence.
ArrayReply(text, len, tag) ==
    [threw |-> FALSE, err |-> NO_RESPONSE, text |-> text,
     array |-> [len |-> len, tag |-> tag]]

SettlesWith(resp) ==
    \E i \in 1..Len(pending) :
        \E out \in Outcomes(pending[i].start, resp) : Settle(i, resp, out)

\* A step is the settling of a fenced array exactly when it is the settling
\* of the same array unwrapped: both lead to the same state.
FenceEquivalent ==
    \A len \in 0..(BATCH_SIZE + 1), tag \in ReplyTags :
        SettlesWith(ArrayReply(Fenced(ArrayText(len, tag)), len, tag))
            <=> SettlesWith(ArrayReply(ArrayText(len, tag), len, tag))

\* A reply that is unparseable after the fallback ends the operation with
\* the generic message and the results as they were.
UnparseableGeneric ==
    (lastOp'.path = "unparseable" /\ pending' # pending) =>
        /\ error' = MSG_GENERIC
        /\ UNCHANGED <<generatedHooks, batchIndex>>

\* C17: a fenced array reply gives the same hooks, results and batch index
\* as the array unwrapped, and a reply still unparseable after the fallback
\* gives the generic failure message and leaves the results alone.
C17_FenceFallback == [][FenceEquivalent /\ UnparseableGeneric]_vars

\* C18: no failure is retried. The calls in flight grow only by a click on
\* a generate button, and by one call per click; once an operation has ended
\* in an error no call is in flight, and the generate button is enabled as
\* soon as the application screen is shown.
C18_NoAutoRetry ==
    /\ [](lastOp.path \in Failed =>
            /\ pending = <<>>
            /\ ~loading
            /\ AppScreen => ButtonEnabled(FALSE))
    /\ [][Len(pending') > Len(pending) =>
            /\ \E isLoadMore \in BOOLEAN : GenerateClick(isLoadMore)
            /\ Len(pending') = Len(pending) + 1]_vars

C18_Witness ==
    /\ lastOp.path = "service_error"
    /\ lastOp.isLoadMore
    /\ pending = <<>>
    /\ ButtonEnabled(TRUE)

\* A call settles successfully in this step.
SettlesOk == pending # <<>> /\ pending' # pending /\ lastOp'.path = "ok"

\* The hooks the settling call adds to the results.
AddedHooks ==
    IF pending[1].isLoadMore
    THEN SubSeq(generatedHooks', Len(generatedHooks) + 1, Len(generatedHooks'))
    ELSE generatedHooks'

\* C19: a batch adds min(reply length, batch length) hooks to the results,
\* and every hook it adds has an id inside the batch window
\* [start, start + batch length).
C19_ZipToShorter ==
    [][SettlesOk =>
        LET call == pending[1]
            batchLength == Len(call.prompt.templates)
        IN  /\ Len(AddedHooks) = Min(lastOp'.reply.len, batchLength)
            /\ \A j \in 1..Len(AddedHooks) :
                /\ AddedHooks[j].id >= call.start
                /\ AddedHooks[j].id < call.start + batchLength]_vars

FailedAfterValidation ==
    {"credential", "service_error", "empty_reply", "unparseable", "not_array"}

\* C20: a LoadMore that fails after validation leaves the results and the
\* batch index as they were before the click: no step from the click to the
\* failure changes them, and at the failure the window of the next LoadMore
\* is the window the failed call asked for.
C20_FailedLoadMoreKeepsWindow ==
    [][/\ (lastOp'.isLoadMore /\ lastOp'.path = "calling") =>
            UNCHANGED <<generatedHooks, batchIndex>>
       /\ (lastOp' # lastOp /\ lastOp'.isLoadMore
                /\ lastOp'.path \in FailedAfterValidation) =>
            /\ UNCHANGED <<generatedHooks, batchIndex>>
            /\ pending # <<>> =>
                /\ pending[1].isLoadMore
                /\ pending[1].start = (batchIndex' + 1) * BATCH_SIZE]_vars

C20_Witness ==
    /\ lastOp.isLoadMore
    /\ lastOp.path = "unparseable"
    /\ Len(generatedHooks) = BATCH_SIZE
    /\ batchIndex = 0
    /\ ButtonEnabled(TRUE)

\* C21: the hooks in the results appear in strictly increasing id order, so
\* their ids (the list keys of the rendering) are pairwise distinct.
C21_DistinctIncreasingIds ==
    \A j \in 1..(Len(generatedHooks) - 1) :
        generatedHooks[j].id < generatedHooks[j + 1].id

\* A step of one page (no reload) that starts or ends on the login screen,
\* and the two steps among them that cross the gate.
LockedStep == mounted /\ mounted' /\ (~isAuthenticated \/ ~isAuthenticated')
LogoutStep == mounted /\ mounted' /\ isAuthenticated /\ ~isAuthenticated'
UnlockStep == mounted /\ mounted' /\ ~isAuthenticated /\ isAuthenticated'

\* The call in flight is delivered: it leaves pending and generateHooks ends.
DeliveryStep == pending # <<>> /\ pending' = <<>> /\ lastOp' # lastOp

\* C22: logout leaves results, batch index, loading, lastError, the form and
\* the call in flight as they are; so does the next unlock; and while the
\* login screen is shown the generation state changes only by the delivery
\* of the call in flight, so the hooks made before logout or delivered after
\* it are in results when the gate opens again.
C22_LogoutKeepsResults ==
    [][/\ (LogoutStep \/ UnlockStep) =>
            UNCHANGED <<generatedHooks, batchIndex, loading, error, formData, pending>>
       /\ LockedStep =>
            \/ UNCHANGED <<generatedHooks, batchIndex, loading, error, pending>>
            \/ DeliveryStep]_vars

C22_Witness ==
    /\ LoginScreen
    /\ storage = "null"
    /\ pending # <<>>
    /\ loading
    /\ Len(generatedHooks) = BATCH_SIZE

\* The build has no service credential, or one made of blanks only.
CredentialMissingOrBlank ==
    \/ ~API_KEY.defined
    \/ \A i \in 1..Len(API_KEY.value) : IsSpace(API_KEY.value[i])

C24_MemoryMatchesStorage ==
    /\ [](mounted => (isAuthenticated <=> storage = "true"))
    /\ [][(LoginScreen /\ mounted' /\ authError' # "") =>
            UNCHANGED <<isAuthenticated, storage>>]_vars

C24_Witness ==
    /\ mounted
    /\ isAuthenticated
    /\ storage = "true"
    /\ gateOpen
    /\ authError = ""
    /\ emailInput # <<>>

====
